---- MODULE Spec2Model ----
(***************************************************************************)
(* Voice front end of the medical voice agent: the AudioProcessor          *)
(* endpointer (voice-activity detection over microphone frames), the       *)
(* ConversationSystem engine that sends finished utterances over the       *)
(* realtime websocket and plays the streamed answer, and the VoiceUI       *)
(* (listen, speak, close) with the two programs that drive it.             *)
(*                                                                         *)
(* Sample counts are kept in samples (24 kHz).  A frame is abstracted to   *)
(* its mean absolute amplitude and its length; the byte buffer is kept as  *)
(* the run-length encoding of the sample string (runs of equal level).     *)
(***************************************************************************)
EXTENDS Integers, Sequences, FiniteSets, TLC

VARIABLES
    \* AudioProcessor fields
    speech_frames, silence_frames, speech_detected, buffer, is_speaking,
    \* value returned by the most recent call on the AudioProcessor
    \* (the drained bytes for reset, empty for the other calls)
    returned,
    \* observation of the calls made on the AudioProcessor
    lastOp, indata, clean, fedLoud, fedQuiet, rises, falls,
    \* which program runs: the ConversationSystem of voice_ui_0n.py, the
    \* second one of voice_medassist.py (the one with call_active), or a
    \* VoiceUI driven by medical_assistant.py or by med_assist.py
    variant,
    \* ConversationSystem: position of the run() coroutine, call_active, and
    \* whether handle_response was entered from setup_websocket_session
    pc, call_active, in_setup,
    \* websocket: inbound messages in flight, outbound messages of the
    \* current request
    inbox, outbox,
    \* remote service: responses requested and not yet finished, whether
    \* session.update has been answered, number of messages emitted
    owed, answered, nsrv,
    \* observation of the engine: type of the last message received, gate value at each
    \* write to the output stream and audio deltas received in the current
    \* response, error received, message sent after an error
    lastRecv, played, audioDeltas, errorSeen, sentAfterError,
    \* playback: audio deltas of the current response dropped by the handler
    \* around decode and write, whether the last message received was written
    \* to the output stream, whether a write to the output stream has raised
    decodeErrors, wrote, deviceFailed,
    \* the padding of an audio delta: the stripped payload and the string
    \* handed to b64decode
    audio_b64, padded,
    \* VoiceUI and its caller: state of the websocket, text accumulated by
    \* _get_transcription, whether a send, a recv or a parse has raised,
    \* where the caller goes when the speak call in progress returns
    conn, transcription, faultSeen, ret,
    \* whether interrupt() has been called during the playback in progress
    interrupted,
    \* statement-level run of the capture thread against the event-loop
    \* thread: position and frame of the process_audio call in progress,
    \* position and local audio_data of the reset call in progress, samples
    \* appended to the buffer and samples returned by reset so far
    cb_pc, cb_frame, rs_pc, audio_data, appended, drained,
    \* whether should_process() was true when the reset call in progress began
    rs_ready,
    \* one call of process_user_input or handle_user_message: the user
    \* message, the text returned by the classifying model, the reply
    \* returned and the specialists called with their messages
    user_message, full_response, reply, called,
    \* one call of _format_for_voice: the text given and the text returned,
    \* line by line
    fmt_text, voice_text

vadFields == <<speech_frames, silence_frames, speech_detected, buffer>>
vadObs    == <<lastOp, indata, clean, fedLoud, fedQuiet, rises, falls>>
vadVars   == <<vadFields, is_speaking, returned, vadObs>>
engVars   == <<variant, pc, call_active, in_setup>>
netVars   == <<inbox, outbox>>
srvVars   == <<owed, answered, nsrv>>
engObs    == <<lastRecv, played, audioDeltas, errorSeen, sentAfterError>>
ioObs     == <<decodeErrors, wrote, deviceFailed>>
padVars   == <<audio_b64, padded>>
uiVars    == <<conn, transcription, faultSeen, ret, interrupted>>
raceVars  == <<cb_pc, cb_frame, rs_pc, audio_data, appended, drained, rs_ready>>
fnVars    == <<user_message, full_response, reply, called, fmt_text, voice_text>>
extVars   == <<padVars, uiVars, raceVars, fnVars>>
vars      == <<vadVars, engVars, netVars, srvVars, engObs, ioObs, extVars>>

---------------------------------------------------------------------------
\* Program constants of AudioProcessor.__init__
sample_rate == 24000
vad_threshold_milli == 15
full_scale == 32768
min_speech_duration == (3 * sample_rate) \div 10
max_silence_duration == (8 * sample_rate) \div 10

\* Bounds of the model
MaxSpeech == 9600
MaxSilence == 24000
MaxRuns == 4
MaxInbox == 2
MaxServerMsgs == 4
MaxDelta == 6
MaxAppended == 28800
MaxWords == 3
MaxResponseWords == 2
MaxPieces == 5

\* Mean absolute amplitudes just below and just above the threshold
Levels == {491, 492}
\* Frame lengths in samples accepted by process_audio
FrameSizes == {1200, 2400, 4800}
Frames == [level : Levels, n : FrameSizes]
\* The input stream is opened with blocksize=4800
blocksize == 4800
Blocks == [level : Levels, n : {blocksize}]
NoFrame == [level |-> 0, n |-> 0]

\* audio_level > self.vad_threshold, with audio_level = mean(|x|) / 32768.0
AboveThreshold(f) == f.level * 1000 > vad_threshold_milli * full_scale

\* buffer.extend(indata.tobytes()): the samples of the frame are appended
extend(buf, f) ==
    IF buf # <<>> /\ buf[Len(buf)].level = f.level
    THEN [buf EXCEPT ![Len(buf)].n = @ + f.n]
    ELSE Append(buf, [level |-> f.level, n |-> f.n])

RECURSIVE BufSamples(_)
BufSamples(buf) == IF buf = <<>> THEN 0 ELSE buf[1].n + BufSamples(Tail(buf))

---------------------------------------------------------------------------
\* The two engines modelled
Variants == {"voice_ui_0n", "voice_medassist"}

\* The two programs that drive a VoiceUI: MedicalAssistant.start_conversation
\* of medical_assistant.py and main of med_assist.py
UIVariants == {"medical_assistant", "med_assist"}

\* Inbound wire messages.  A text is the sequence of its lower-cased words
\* and phrases.
Msg(t, r, x, d) == [type |-> t, role |-> r, text |-> x, delta |-> d]
NoMsg == Msg("", "", <<>>, "")
SessionCreated == Msg("session.created", "", <<>>, "")
ErrorMsg == Msg("error", "", <<>>, "")
AudioDelta(d) == Msg("response.audio.delta", "", <<>>, d)
TextDelta == Msg("response.text.delta", "", <<>>, "partial")
TextDone(x) == Msg("response.text.done", "", x, "")
ItemCreated(r, x) == Msg("conversation.item.created", r, x, "")
ResponseDone == Msg("response.done", "", <<>>, "")
Other == Msg("rate_limits.updated", "", <<>>, "")
\* a text delta carrying one word of a transcription
TextWord(w) == Msg("response.text.delta", "", <<>>, w)
\* a frame that json.loads cannot parse
Garbage == Msg("garbage", "", <<>>, "")

Hello == <<"hello">>
Goodbye == <<"goodbye">>
Answered == <<"all your questions", "answered">>

Contains(text, w) == \E i \in DOMAIN text : text[i] = w

\* "bye" in text_lower or "goodbye" in text_lower or "good bye" in text_lower
check_goodbye(text) ==
    Contains(text, "bye") \/ Contains(text, "goodbye") \/ Contains(text, "good bye")

\* "all your questions" in text.lower() and "answered" in text.lower()
check_all_questions_answered(text) ==
    Contains(text, "all your questions") /\ Contains(text, "answered")

\* Events the service may emit before response.done
ResponseEvents ==
    { AudioDelta("pcm"), AudioDelta("p"), AudioDelta(""), TextDelta,
      TextDone(Hello), TextDone(Answered),
      ItemCreated("user", Hello), ItemCreated("user", Goodbye),
      ItemCreated("assistant", Goodbye), ErrorMsg, Other }

\* Events the service may emit to a VoiceUI before response.done
UIEvents ==
    { AudioDelta("pcm"), TextWord("hello"), TextWord("goodbye"),
      TextWord("exit"), Garbage }

\* team.handle_user_message / process_user_input returns a reply or raises
AgentOutcomes == {"reply", "raise"}

\* Outbound wire messages: the type, the audio carried and the modalities
\* requested
NoAudio == [b64len |-> 0, pcm |-> <<>>]
Out(t, a) == [type |-> t, audio |-> a, modalities |-> <<>>]
ResponseCreate(mods) ==
    [type |-> "response.create", audio |-> NoAudio, modalities |-> mods]

\* base64.b64encode(audio_data).decode('utf-8'): two bytes per int16 sample,
\* four characters for every three bytes or part of them
b64encode(bytes) ==
    [b64len |-> 4 * ((2 * BufSamples(bytes) + 2) \div 3), pcm |-> bytes]

---------------------------------------------------------------------------
\* Decoding of an audio delta.  The payloads of the model carry neither
\* white space nor padding of their own, so every character is a data
\* character.

RECURSIVE Repeat(_, _)
Repeat(c, n) == IF n = 0 THEN "" ELSE c \o Repeat(c, n - 1)

pad_count_pos(s) == Len(s) % 4

\* pad = -len(audio_b64) % 4
pad_count(s) == (0 - Len(s)) % 4

\* if pad: audio_b64 += "=" * pad
pad(s) == IF pad_count(s) # 0 THEN s \o Repeat("=", pad_count(s)) ELSE s

\* base64.b64decode raises binascii.Error when the string is not padded to
\* a multiple of four characters or when its data characters are one more
\* than a multiple of four
b64decode_ok(d) == Len(pad(d)) % 4 = 0 /\ Len(d) % 4 # 1

\* number of bytes decoded: six bits per data character, whole bytes only
b64decode_len(d) == (Len(d) * 6) \div 8

\* np.frombuffer(..., dtype=np.int16) raises ValueError when the byte count
\* is not a multiple of the element size
frombuffer_ok(nbytes) == nbytes % 2 = 0

decodes(d) == b64decode_ok(d) /\ frombuffer_ok(b64decode_len(d))

\* Characters of a payload, and the payloads of at most n characters
Alphabet == {"A", "/"}

RECURSIVE Payloads(_)
Payloads(n) ==
    IF n = 0 THEN {""}
    ELSE LET P == Payloads(n - 1) IN P \cup {s \o c : s \in P, c \in Alphabet}

\* streams['output'].write(audio_array) returns or raises
DeviceOutcomes == {"ok", "raise"}


should_process_eq ==
    /\ speech_detected
    /\ speech_frames >= min_speech_duration
    /\ silence_frames = max_silence_duration

should_process_nofloor ==
    /\ speech_detected
    /\ silence_frames >= max_silence_duration

should_process ==
    /\ speech_detected
    /\ speech_frames >= min_speech_duration
    /\ silence_frames >= max_silence_duration

process_audio_nogate(f) ==
    IF AboveThreshold(f)
    THEN /\ speech_detected' = TRUE
         /\ speech_frames' = speech_frames + f.n
         /\ silence_frames' = 0
         /\ buffer' = extend(buffer, f)
    ELSE IF speech_detected
    THEN /\ silence_frames' = silence_frames + f.n
         /\ buffer' = IF silence_frames + f.n < max_silence_duration
                      THEN extend(buffer, f) ELSE buffer
         /\ UNCHANGED <<speech_detected, speech_frames>>
    ELSE UNCHANGED vadFields

process_audio_keeptail(f) ==
    IF is_speaking THEN UNCHANGED vadFields
    ELSE IF AboveThreshold(f)
    THEN /\ speech_detected' = TRUE
         /\ speech_frames' = speech_frames + f.n
         /\ silence_frames' = 0
         /\ buffer' = extend(buffer, f)
    ELSE IF speech_detected
    THEN /\ silence_frames' = silence_frames + f.n
         /\ buffer' = extend(buffer, f)
         /\ UNCHANGED <<speech_detected, speech_frames>>
    ELSE UNCHANGED vadFields

process_audio_timeout(f) ==
    IF is_speaking THEN UNCHANGED vadFields
    ELSE IF AboveThreshold(f)
    THEN /\ speech_detected' = TRUE
         /\ speech_frames' = speech_frames + f.n
         /\ silence_frames' = 0
         /\ buffer' = extend(buffer, f)
    ELSE IF speech_detected
    THEN IF silence_frames + f.n >= max_silence_duration
            /\ speech_frames < min_speech_duration
         THEN /\ speech_detected' = FALSE
              /\ speech_frames' = 0
              /\ silence_frames' = 0
              /\ buffer' = <<>>
         ELSE /\ silence_frames' = silence_frames + f.n
              /\ buffer' = IF silence_frames + f.n < max_silence_duration
                           THEN extend(buffer, f) ELSE buffer
              /\ UNCHANGED <<speech_detected, speech_frames>>
    ELSE UNCHANGED vadFields

process_audio_countidle(f) ==
    IF is_speaking THEN UNCHANGED vadFields
    ELSE IF AboveThreshold(f)
    THEN /\ speech_detected' = TRUE
         /\ speech_frames' = speech_frames + f.n
         /\ silence_frames' = 0
         /\ buffer' = extend(buffer, f)
    ELSE /\ silence_frames' = silence_frames + f.n
         /\ buffer' = IF speech_detected /\ silence_frames + f.n < max_silence_duration
                      THEN extend(buffer, f) ELSE buffer
         /\ UNCHANGED <<speech_detected, speech_frames>>

process_audio_keepsilence(f) ==
    IF is_speaking THEN UNCHANGED vadFields
    ELSE IF AboveThreshold(f)
    THEN /\ speech_detected' = TRUE
         /\ speech_frames' = speech_frames + f.n
         /\ silence_frames' = silence_frames
         /\ buffer' = extend(buffer, f)
    ELSE IF speech_detected
    THEN /\ silence_frames' = silence_frames + f.n
         /\ buffer' = IF silence_frames + f.n < max_silence_duration
                      THEN extend(buffer, f) ELSE buffer
         /\ UNCHANGED <<speech_detected, speech_frames>>
    ELSE UNCHANGED vadFields

process_audio_le(f) ==
    IF is_speaking THEN UNCHANGED vadFields
    ELSE IF AboveThreshold(f)
    THEN /\ speech_detected' = TRUE
         /\ speech_frames' = speech_frames + f.n
         /\ silence_frames' = 0
         /\ buffer' = extend(buffer, f)
    ELSE IF speech_detected
    THEN /\ silence_frames' = silence_frames + f.n
         /\ buffer' = IF silence_frames + f.n <= max_silence_duration
                      THEN extend(buffer, f) ELSE buffer
         /\ UNCHANGED <<speech_detected, speech_frames>>
    ELSE UNCHANGED vadFields

process_audio(f) ==
    IF is_speaking THEN UNCHANGED vadFields
    ELSE IF AboveThreshold(f)
    THEN /\ speech_detected' = TRUE
         /\ speech_frames' = speech_frames + f.n
         /\ silence_frames' = 0
         /\ buffer' = extend(buffer, f)
    ELSE IF speech_detected
    THEN /\ silence_frames' = silence_frames + f.n
         /\ buffer' = IF silence_frames + f.n < max_silence_duration
                      THEN extend(buffer, f) ELSE buffer
         /\ UNCHANGED <<speech_detected, speech_frames>>
    ELSE UNCHANGED vadFields

reset_keepsilence ==
    /\ speech_frames' = 0
    /\ silence_frames' = silence_frames
    /\ speech_detected' = FALSE
    /\ returned' = buffer
    /\ buffer' = <<>>

reset_keepflag ==
    /\ speech_frames' = 0
    /\ silence_frames' = 0
    /\ speech_detected' = speech_detected
    /\ returned' = buffer
    /\ buffer' = <<>>

reset ==
    /\ speech_frames' = 0
    /\ silence_frames' = 0
    /\ speech_detected' = FALSE
    /\ returned' = buffer
    /\ buffer' = <<>>

---------------------------------------------------------------------------
\* Observation of the frame sequence since the last drain: clean while it is
\* a run of above-threshold frames followed by a run of below-threshold
\* frames, all fed with the gate open
ObserveFeed(f) ==
    /\ lastOp' = "process_audio"
    /\ indata' = f
    /\ clean' = /\ clean
                 /\ ~is_speaking
                 /\ (AboveThreshold(f) => fedQuiet = 0)
                 /\ (~AboveThreshold(f) => fedLoud > 0)
    /\ fedLoud' = IF clean' THEN fedLoud + (IF AboveThreshold(f) THEN f.n ELSE 0) ELSE 0
    /\ fedQuiet' = IF clean' THEN fedQuiet + (IF AboveThreshold(f) THEN 0 ELSE f.n) ELSE 0
    /\ rises' = rises + (IF ~should_process /\ should_process' THEN 1 ELSE 0)
    /\ falls' = falls + (IF should_process /\ ~should_process' THEN 1 ELSE 0)

ObserveReset ==
    /\ lastOp' = IF lastOp \in {"reset", "reset_again"} THEN "reset_again" ELSE "reset"
    /\ indata' = NoFrame
    /\ clean' = TRUE
    /\ fedLoud' = 0
    /\ fedQuiet' = 0
    /\ rises' = 0
    /\ falls' = 0

\* process_audio called with any frame (the contract of AudioProcessor)
Feed ==
    \E f \in Frames :
        /\ (AboveThreshold(f) => speech_frames + f.n <= MaxSpeech)
        /\ (~AboveThreshold(f) => silence_frames + f.n <= MaxSilence)
        /\ Len(extend(buffer, f)) <= MaxRuns
        /\ process_audio(f)
        /\ ObserveFeed(f)
        /\ returned' = <<>>
        /\ UNCHANGED is_speaking
        /\ UNCHANGED <<engVars, netVars, srvVars, engObs, ioObs, extVars>>

\* A drain of the endpointer
Drain ==
    /\ reset
    /\ ObserveReset
    /\ UNCHANGED is_speaking
    /\ UNCHANGED <<engVars, netVars, srvVars, engObs, ioObs, extVars>>

\* The owner of the gate raises or lowers it
SetGate ==
    \E b \in BOOLEAN :
        /\ is_speaking' = b
        /\ lastOp' = "gate"
            /\ returned' = <<>>
        /\ UNCHANGED <<vadFields, indata, clean, fedLoud, fedQuiet, rises, falls>>
        /\ UNCHANGED <<engVars, netVars, srvVars, engObs, ioObs, extVars>>

InitVAD ==
    /\ speech_frames = 0
    /\ silence_frames = 0
    /\ speech_detected = FALSE
    /\ buffer = <<>>
    /\ is_speaking = FALSE
    /\ returned = <<>>
    /\ lastOp = "init"
    /\ indata = NoFrame
    /\ clean = TRUE
    /\ fedLoud = 0
    /\ fedQuiet = 0
    /\ rises = 0
    /\ falls = 0

InitEngine ==
    /\ variant \in Variants
    /\ pc = "setup_send"
    /\ call_active = TRUE
    /\ in_setup = FALSE
    /\ inbox = <<>>
    /\ outbox = <<>>
    /\ owed = 0
    /\ answered = FALSE
    /\ nsrv = 0
    /\ lastRecv = ""
    /\ played = <<>>
    /\ audioDeltas = 0
    /\ errorSeen = FALSE
    /\ sentAfterError = FALSE

InitIO ==
    /\ decodeErrors = 0
    /\ wrote = FALSE
    /\ deviceFailed = FALSE

PadIdle ==
    /\ audio_b64 = ""
    /\ padded = ""

UiIdle ==
    /\ conn = "open"
    /\ transcription = <<>>
    /\ faultSeen = FALSE
    /\ ret = "listen"
    /\ interrupted = FALSE

RaceIdle ==
    /\ cb_pc = "idle"
    /\ cb_frame = NoFrame
    /\ rs_pc = "idle"
    /\ audio_data = <<>>
    /\ appended = 0
    /\ drained = 0
    /\ rs_ready = FALSE

FnIdle ==
    /\ user_message = <<>>
    /\ full_response = <<>>
    /\ reply = <<>>
    /\ called = <<>>
    /\ fmt_text = <<>>
    /\ voice_text = <<>>

Init == InitVAD /\ InitEngine /\ InitIO /\ PadIdle /\ UiIdle /\ RaceIdle /\ FnIdle

---------------------------------------------------------------------------
\* The capture callback of the input stream: one block per call (the
\* observation of the frame sequence is kept for Feed only)
audio_callback ==
    /\ pc \notin {"closed", "ended"}
    /\ \E f \in Blocks :
        /\ (AboveThreshold(f) => speech_frames + f.n <= MaxSpeech)
        /\ (~AboveThreshold(f) => silence_frames + f.n <= MaxSilence)
        /\ Len(extend(buffer, f)) <= MaxRuns
        /\ process_audio(f)
        /\ lastOp' = "process_audio"
        /\ indata' = f
        /\ returned' = <<>>
        /\ UNCHANGED <<is_speaking, clean, fedLoud, fedQuiet, rises, falls>>
        /\ UNCHANGED <<engVars, netVars, srvVars, engObs, ioObs, extVars>>

\* ws.send(json.dumps(...)): one outbound message
send(t, a) ==
    /\ outbox' = Append(outbox, Out(t, a))
    /\ sentAfterError' = (sentAfterError \/ errorSeen)

send_create_text(mods) ==
    /\ outbox' = Append(outbox, ResponseCreate(<<"text">>))
    /\ sentAfterError' = (sentAfterError \/ errorSeen)

\* ws.send of a response.create
send_create(mods) ==
    /\ outbox' = Append(outbox, ResponseCreate(mods))
    /\ sentAfterError' = (sentAfterError \/ errorSeen)

\* the first message of a new request
send_first(t, a) ==
    /\ outbox' = <<Out(t, a)>>
    /\ sentAfterError' = (sentAfterError \/ errorSeen)

\* setup_websocket_session: await websocket.send(session_config)
SetupSend ==
    /\ pc = "setup_send"
    /\ send_first("session.update", NoAudio)
    /\ pc' = "setup_recv"
    /\ UNCHANGED <<vadVars, variant, call_active, in_setup, inbox, srvVars>>
    /\ UNCHANGED <<lastRecv, played, audioDeltas, errorSeen, ioObs, extVars>>

\* setup_websocket_session: one iteration of the wait for session.created.
\* voice_ui_0n.py goes on with send_message(greeting), whose first send is
\* part of this step.
setup_done_any(m) == m.type # "error"

\* if data["type"] == "session.created": ... break
setup_done(m) == m.type = "session.created"

after_setup_greet ==
    CASE variant = "voice_medassist" -> "loop"
      [] OTHER -> "speak"

\* where the program goes when the setup has returned: the run loop of
\* voice_medassist.py, speak(greeting) in MedicalAssistant.start_conversation,
\* listen() in main of med_assist.py
after_setup ==
    CASE variant = "voice_medassist" -> "loop"
      [] variant = "medical_assistant" -> "speak"
      [] OTHER -> "listen"

SetupRecv ==
    /\ pc = "setup_recv"
    /\ inbox # <<>>
    /\ LET m == Head(inbox) IN
        /\ inbox' = Tail(inbox)
        /\ lastRecv' = m.type
        /\ errorSeen' = (errorSeen \/ m.type = "error")
        /\ IF setup_done(m)
           THEN IF variant = "voice_ui_0n"
                THEN /\ send_first("conversation.item.create", NoAudio)
                     /\ pc' = "msg_create"
                ELSE /\ pc' = after_setup
                     /\ UNCHANGED <<outbox, sentAfterError>>
           ELSE IF m.type = "error"
           THEN /\ pc' = "closed"
                /\ UNCHANGED <<outbox, sentAfterError>>
           ELSE /\ pc' = "setup_recv"
                /\ UNCHANGED <<outbox, sentAfterError>>
    /\ UNCHANGED <<vadVars, variant, call_active, in_setup, srvVars>>
    /\ UNCHANGED <<played, audioDeltas, ioObs, extVars>>

\* send_message: the response.create that follows the greeting item
MsgCreate ==
    /\ pc = "msg_create"
    /\ send_create(<<"audio", "text">>)
    /\ owed' = owed + 1
    /\ in_setup' = TRUE
    /\ pc' = "hr_enter"
    /\ UNCHANGED <<vadVars, variant, call_active, inbox, answered, nsrv>>
    /\ UNCHANGED <<lastRecv, played, audioDeltas, errorSeen, ioObs, extVars>>

\* run: one evaluation of the main loop.  A ready utterance is drained and
\* send_audio sends its first message; otherwise the loop sleeps.
Loop ==
    /\ pc = "loop"
    /\ IF variant = "voice_medassist" /\ ~call_active
       THEN /\ pc' = "ended"
            /\ UNCHANGED <<vadVars, outbox, sentAfterError>>
       ELSE IF should_process
       THEN /\ reset
            /\ ObserveReset
            /\ send_first("input_audio_buffer.append", b64encode(buffer))
            /\ pc' = "audio_commit"
            /\ UNCHANGED is_speaking
       ELSE /\ pc' = "sleep"
            /\ UNCHANGED <<vadVars, outbox, sentAfterError>>
    /\ UNCHANGED <<variant, call_active, in_setup, inbox, srvVars>>
    /\ UNCHANGED <<lastRecv, played, audioDeltas, errorSeen, ioObs, extVars>>

\* send_audio: input_audio_buffer.commit
AudioCommit ==
    /\ pc = "audio_commit"
    /\ send("input_audio_buffer.commit", NoAudio)
    /\ pc' = "audio_create"
    /\ UNCHANGED <<vadVars, variant, call_active, in_setup, inbox, srvVars>>
    /\ UNCHANGED <<lastRecv, played, audioDeltas, errorSeen, ioObs, extVars>>

\* send_audio: response.create
AudioCreate ==
    /\ pc = "audio_create"
    /\ send_create(<<"audio", "text">>)
    /\ owed' = owed + 1
    /\ in_setup' = FALSE
    /\ pc' = "hr_enter"
    /\ UNCHANGED <<vadVars, variant, call_active, inbox, answered, nsrv>>
    /\ UNCHANGED <<lastRecv, played, audioDeltas, errorSeen, ioObs, extVars>>

\* handle_response: the loop is left on response.done, and in
\* voice_medassist.py also when call_active is false at the top of the loop
hr_break_done_only(m, active) == m.type = "response.done"

hr_break(m, active) ==
    \/ m.type = "response.done"
    \/ variant = "voice_medassist" /\ ~active

\* handle_response: finally clause and return to the caller
hr_exit_nofinally ==
    /\ is_speaking' = is_speaking
    /\ pc' = IF in_setup THEN "loop" ELSE "sleep"
    /\ in_setup' = FALSE

hr_exit ==
    /\ is_speaking' = FALSE
    /\ pc' = IF in_setup THEN "loop" ELSE "sleep"
    /\ in_setup' = FALSE

\* handle_response: entry, up to the first await ws.recv()
HrEnter_nogate ==
    /\ pc = "hr_enter"
    /\ played' = <<>>
    /\ audioDeltas' = 0
    /\ decodeErrors' = 0
    /\ wrote' = FALSE
    /\ IF hr_break(NoMsg, call_active)
       THEN hr_exit
       ELSE /\ is_speaking' = is_speaking
            /\ pc' = "hr_recv"
            /\ UNCHANGED in_setup
    /\ UNCHANGED <<vadFields, returned, vadObs, variant, call_active>>
    /\ UNCHANGED <<netVars, srvVars, lastRecv, errorSeen, sentAfterError>>
    /\ UNCHANGED <<deviceFailed, extVars>>

HrEnter ==
    /\ pc = "hr_enter"
    /\ played' = <<>>
    /\ audioDeltas' = 0
    /\ decodeErrors' = 0
    /\ wrote' = FALSE
    /\ IF hr_break(NoMsg, call_active)
       THEN hr_exit
       ELSE /\ is_speaking' = TRUE
            /\ pc' = "hr_recv"
            /\ UNCHANGED in_setup
    /\ UNCHANGED <<vadFields, returned, vadObs, variant, call_active>>
    /\ UNCHANGED <<netVars, srvVars, lastRecv, errorSeen, sentAfterError>>
    /\ UNCHANGED <<deviceFailed, extVars>>

ends_call_any(m) ==
    \/ /\ m.type = "response.text.done"
       /\ m.text # <<>>
    \/ /\ m.type = "conversation.item.created"
       /\ m.role = "user"
       /\ m.text # <<>>

\* handle_response: texts that end the call (voice_medassist.py)
ends_call(m) ==
    \/ /\ m.type = "response.text.done"
       /\ m.text # <<>>
       /\ check_all_questions_answered(m.text)
    \/ /\ m.type = "conversation.item.created"
       /\ m.role = "user"
       /\ m.text # <<>>
       /\ check_goodbye(m.text)

\* handle_response: the audio branch.  The delta is decoded when it is not
\* empty; the handler around decode and write drops the delta when either
\* raises.
attempts(m) == m.type = "response.audio.delta" /\ m.delta # ""

writes_at_done(m, dev) ==
    m.type = "response.done" /\ audioDeltas > 0 /\ dev = "ok"

writes_until_error(m, dev) ==
    attempts(m) /\ decodes(m.delta) /\ dev = "ok" /\ decodeErrors = 0

writes(m, dev) == attempts(m) /\ decodes(m.delta) /\ dev = "ok"

\* handle_response: one message received and dispatched, then the test at
\* the top of the next iteration
HrRecv ==
    /\ pc = "hr_recv"
    /\ inbox # <<>>
    /\ \E dev \in DeviceOutcomes :
        LET m == Head(inbox) IN
        /\ inbox' = Tail(inbox)
        /\ lastRecv' = m.type
        /\ errorSeen' = (errorSeen \/ m.type = "error")
        /\ audioDeltas' = audioDeltas + (IF m.type = "response.audio.delta" THEN 1 ELSE 0)
        /\ played' = IF writes(m, dev) THEN Append(played, is_speaking) ELSE played
        /\ wrote' = writes(m, dev)
        /\ decodeErrors' = decodeErrors
                             + (IF attempts(m) /\ ~decodes(m.delta) THEN 1 ELSE 0)
        /\ deviceFailed' = (deviceFailed
                              \/ (attempts(m) /\ decodes(m.delta) /\ dev = "raise"))
        /\ call_active' = IF variant = "voice_medassist" /\ ends_call(m)
                           THEN FALSE ELSE call_active
        /\ IF hr_break(m, call_active')
           THEN hr_exit
           ELSE /\ pc' = "hr_recv"
                /\ UNCHANGED <<is_speaking, in_setup>>
    /\ UNCHANGED <<vadFields, returned, vadObs, variant, outbox, srvVars, sentAfterError>>
    /\ UNCHANGED extVars

\* run: await asyncio.sleep(0.05)
Sleep ==
    /\ pc = "sleep"
    /\ pc' = "loop"
    /\ UNCHANGED <<vadVars, variant, call_active, in_setup, netVars, srvVars, engObs>>
    /\ UNCHANGED <<ioObs, extVars>>

---------------------------------------------------------------------------
\* The remote service
ServerPut(m) ==
    /\ pc \notin {"setup_send", "closed", "ended"}
    /\ conn = "open"
    /\ Len(inbox) < MaxInbox
    /\ nsrv < MaxServerMsgs
    /\ inbox' = Append(inbox, m)
    /\ nsrv' = nsrv + 1
    /\ UNCHANGED <<vadVars, engVars, outbox, engObs, ioObs, extVars>>

\* answer to session.update
ServerSession ==
    /\ ~answered
    /\ \E m \in {SessionCreated, ErrorMsg} : ServerPut(m)
    /\ answered' = TRUE
    /\ UNCHANGED owed

\* an event of a running response, or an error or another notice at any time
ServerEvent ==
    /\ variant \in Variants
    /\ \E m \in ResponseEvents :
          /\ owed > 0 \/ m \in {ErrorMsg, Other}
          /\ ServerPut(m)
    /\ UNCHANGED <<owed, answered>>

\* the end of a running response
ServerDone ==
    /\ owed > 0
    /\ ServerPut(ResponseDone)
    /\ owed' = owed - 1
    /\ UNCHANGED answered

Engine ==
    \/ SetupSend \/ SetupRecv \/ MsgCreate \/ Loop \/ AudioCommit
    \/ AudioCreate \/ HrEnter \/ HrRecv \/ Sleep

Server == ServerSession \/ ServerEvent \/ ServerDone

Next == audio_callback \/ Engine \/ Server

Spec == Init /\ [][Next]_vars

\* the event loop runs the coroutine whenever it can take a step
FairSpec == Spec /\ WF_vars(Engine)

NextVAD == Feed \/ Drain \/ SetGate

SpecVAD == Init /\ [][NextVAD]_vars

---------------------------------------------------------------------------
\* The padding of audio deltas on its own

\* audio_b64 = data.get("delta", "").strip(), for any payload
ReceiveDelta ==
    /\ audio_b64 = "" \/ padded # ""
    /\ audio_b64' \in Payloads(MaxDelta)
    /\ padded' = ""
    /\ UNCHANGED <<vadVars, engVars, netVars, srvVars, engObs, ioObs, uiVars, raceVars, fnVars>>

\* if audio_b64: ... audio_b64 += "=" * pad
PadDelta ==
    /\ audio_b64 # ""
    /\ padded = ""
    /\ padded' = pad(audio_b64)
    /\ UNCHANGED audio_b64
    /\ UNCHANGED <<vadVars, engVars, netVars, srvVars, engObs, ioObs, uiVars, raceVars, fnVars>>

NextPad == ReceiveDelta \/ PadDelta

SpecPad == Init /\ [][NextPad]_vars

---------------------------------------------------------------------------
\* VoiceUI (voice_ui.py) driven by MedicalAssistant.start_conversation or by
\* main of med_assist.py

InitVoiceUI ==
    /\ InitVAD /\ InitIO /\ PadIdle /\ UiIdle /\ RaceIdle
    /\ variant \in UIVariants
    /\ pc = "setup_send"
    /\ call_active = TRUE
    /\ in_setup = FALSE
    /\ inbox = <<>>
    /\ outbox = <<>>
    /\ owed = 0
    /\ answered = FALSE
    /\ nsrv = 0
    /\ lastRecv = ""
    /\ played = <<>>
    /\ audioDeltas = 0
    /\ errorSeen = FALSE
    /\ sentAfterError = FALSE

InitUI == InitVoiceUI /\ FnIdle

\* the caller, once listen() has returned the text t
after_listen(t) ==
    IF variant = "med_assist"
    THEN IF t = <<>>
         THEN pc' = "listen" /\ UNCHANGED ret
         ELSE IF t \in {<<"exit">>, <<"quit">>}
         THEN pc' = "close" /\ UNCHANGED ret
         ELSE \E agent \in AgentOutcomes :
                 IF agent = "reply"
                 THEN pc' = "speak" /\ ret' = "listen"
                 ELSE pc' = "close" /\ UNCHANGED ret
    ELSE IF Contains(t, "goodbye") \/ Contains(t, "thank you")
         THEN pc' = "speak" /\ ret' = "close"
         ELSE \E agent \in AgentOutcomes :
                 IF agent = "reply"
                 THEN pc' = "speak" /\ ret' = "listen"
                 ELSE pc' = "close" /\ UNCHANGED ret

\* the caller, once speak() has returned
after_speak == pc' = IF ret = "close" THEN "close" ELSE "listen"

\* _get_transcription: except Exception: ... return ""
gt_except ==
    /\ faultSeen' = TRUE
    /\ after_listen(<<>>)

sp_finally_skipped == is_speaking' = is_speaking

\* speak: the finally clause of the receive loop
sp_finally == is_speaking' = FALSE

\* listen: the reset on entry
Listen ==
    /\ pc = "listen"
    /\ reset
    /\ ObserveReset
    /\ pc' = "listen_wait"
    /\ UNCHANGED <<is_speaking, variant, call_active, in_setup>>
    /\ UNCHANGED <<netVars, srvVars, engObs, ioObs, extVars>>

\* listen: one test of should_process; a ready utterance is drained and
\* _get_transcription sends its first message
ListenWait ==
    /\ pc = "listen_wait"
    /\ IF should_process
       THEN /\ reset
            /\ ObserveReset
            /\ UNCHANGED is_speaking
            /\ IF conn = "open"
               THEN /\ send_first("input_audio_buffer.append", b64encode(buffer))
                    /\ pc' = "gt_commit"
                    /\ UNCHANGED <<faultSeen, ret>>
               ELSE /\ gt_except
                    /\ UNCHANGED <<outbox, sentAfterError>>
       ELSE /\ pc' = "listen_sleep"
            /\ UNCHANGED <<vadVars, outbox, sentAfterError, faultSeen, ret>>
    /\ UNCHANGED <<variant, call_active, in_setup, inbox, srvVars>>
    /\ UNCHANGED <<lastRecv, played, audioDeltas, errorSeen, ioObs>>
    /\ UNCHANGED <<padVars, fnVars, conn, transcription, raceVars, interrupted>>

\* listen: await asyncio.sleep(0.05)
ListenSleep ==
    /\ pc = "listen_sleep"
    /\ pc' = "listen_wait"
    /\ UNCHANGED <<vadVars, variant, call_active, in_setup, netVars, srvVars, engObs>>
    /\ UNCHANGED <<ioObs, extVars>>

\* _get_transcription: input_audio_buffer.commit
GtCommit ==
    /\ pc = "gt_commit"
    /\ IF conn = "open"
       THEN /\ send("input_audio_buffer.commit", NoAudio)
            /\ pc' = "gt_create"
            /\ UNCHANGED <<faultSeen, ret>>
       ELSE /\ gt_except
            /\ UNCHANGED <<outbox, sentAfterError>>
    /\ UNCHANGED <<vadVars, variant, call_active, in_setup, inbox, srvVars>>
    /\ UNCHANGED <<lastRecv, played, audioDeltas, errorSeen, ioObs>>
    /\ UNCHANGED <<padVars, fnVars, conn, transcription, raceVars, interrupted>>

\* _get_transcription: response.create for text only
GtCreate ==
    /\ pc = "gt_create"
    /\ IF conn = "open"
       THEN /\ send_create(<<"text">>)
            /\ owed' = owed + 1
            /\ transcription' = <<>>
            /\ pc' = "gt_recv"
            /\ UNCHANGED <<faultSeen, ret>>
       ELSE /\ gt_except
            /\ UNCHANGED <<outbox, sentAfterError, owed, transcription>>
    /\ UNCHANGED <<vadVars, variant, call_active, in_setup, inbox, answered, nsrv>>
    /\ UNCHANGED <<lastRecv, played, audioDeltas, errorSeen, ioObs>>
    /\ UNCHANGED <<padVars, fnVars, conn, raceVars, interrupted>>

\* _get_transcription: one message received, or recv raising on the broken
\* connection
GtRecv ==
    /\ pc = "gt_recv"
    /\ IF inbox = <<>>
       THEN /\ conn = "broken"
            /\ gt_except
            /\ UNCHANGED <<inbox, lastRecv, errorSeen, transcription>>
       ELSE LET m == Head(inbox) IN
            /\ inbox' = Tail(inbox)
            /\ lastRecv' = m.type
            /\ errorSeen' = (errorSeen \/ m.type = "error")
            /\ IF m = Garbage
               THEN /\ gt_except
                    /\ UNCHANGED transcription
               ELSE IF m.type = "response.text.delta"
               THEN /\ transcription' = IF m.delta # ""
                                         THEN Append(transcription, m.delta)
                                         ELSE transcription
                    /\ pc' = "gt_recv"
                    /\ UNCHANGED <<faultSeen, ret>>
               ELSE IF m.type = "response.done"
               THEN /\ after_listen(transcription)
                    /\ UNCHANGED <<transcription, faultSeen>>
               ELSE /\ pc' = "gt_recv"
                    /\ UNCHANGED <<transcription, faultSeen, ret>>
    /\ UNCHANGED <<vadVars, variant, call_active, in_setup, outbox, srvVars>>
    /\ UNCHANGED <<played, audioDeltas, sentAfterError, ioObs>>
    /\ UNCHANGED <<padVars, fnVars, conn, raceVars, interrupted>>

\* speak: conversation.item.create with the text to say
Speak ==
    /\ pc = "speak"
    /\ IF conn = "open"
       THEN /\ send_first("conversation.item.create", NoAudio)
            /\ pc' = "sp_create"
            /\ UNCHANGED faultSeen
       ELSE /\ faultSeen' = TRUE
            /\ after_speak
            /\ UNCHANGED <<outbox, sentAfterError>>
    /\ UNCHANGED <<vadVars, variant, call_active, in_setup, inbox, srvVars>>
    /\ UNCHANGED <<lastRecv, played, audioDeltas, errorSeen, ioObs>>
    /\ UNCHANGED <<padVars, fnVars, conn, transcription, ret, raceVars, interrupted>>

\* speak: response.create for audio only
SpCreate ==
    /\ pc = "sp_create"
    /\ IF conn = "open"
       THEN /\ send_create(<<"audio">>)
            /\ owed' = owed + 1
            /\ pc' = "sp_enter"
            /\ UNCHANGED faultSeen
       ELSE /\ faultSeen' = TRUE
            /\ after_speak
            /\ UNCHANGED <<outbox, sentAfterError, owed>>
    /\ UNCHANGED <<vadVars, variant, call_active, in_setup, inbox, answered, nsrv>>
    /\ UNCHANGED <<lastRecv, played, audioDeltas, errorSeen, ioObs>>
    /\ UNCHANGED <<padVars, fnVars, conn, transcription, ret, raceVars, interrupted>>

\* speak: self.audio_processor.is_speaking = True
SpEnter ==
    /\ pc = "sp_enter"
    /\ is_speaking' = TRUE
    /\ played' = <<>>
    /\ audioDeltas' = 0
    /\ decodeErrors' = 0
    /\ wrote' = FALSE
    /\ pc' = "sp_recv"
    /\ UNCHANGED <<vadFields, returned, vadObs, variant, call_active, in_setup>>
    /\ UNCHANGED <<netVars, srvVars, lastRecv, errorSeen, sentAfterError>>
    /\ UNCHANGED <<deviceFailed, extVars>>

\* speak: one message received and dispatched, or recv raising on the broken
\* connection
SpRecv ==
    /\ pc = "sp_recv"
    /\ IF inbox = <<>>
       THEN /\ conn = "broken"
            /\ faultSeen' = TRUE
            /\ sp_finally
            /\ after_speak
            /\ UNCHANGED <<inbox, lastRecv, errorSeen, played, audioDeltas, ioObs>>
       ELSE \E dev \in DeviceOutcomes :
            LET m == Head(inbox) IN
            /\ inbox' = Tail(inbox)
            /\ lastRecv' = m.type
            /\ errorSeen' = (errorSeen \/ m.type = "error")
            /\ audioDeltas' = audioDeltas
                               + (IF m.type = "response.audio.delta" THEN 1 ELSE 0)
            /\ played' = IF writes(m, dev) THEN Append(played, is_speaking) ELSE played
            /\ wrote' = writes(m, dev)
            /\ decodeErrors' = decodeErrors
                                + (IF attempts(m) /\ ~decodes(m.delta) THEN 1 ELSE 0)
            /\ deviceFailed' = (deviceFailed
                                 \/ (attempts(m) /\ decodes(m.delta) /\ dev = "raise"))
            /\ faultSeen' = (faultSeen \/ m = Garbage)
            /\ IF m = Garbage \/ m.type = "response.done"
               THEN /\ sp_finally
                    /\ after_speak
               ELSE /\ pc' = "sp_recv"
                    /\ UNCHANGED is_speaking
    /\ UNCHANGED <<vadFields, returned, vadObs, variant, call_active, in_setup>>
    /\ interrupted' = (interrupted /\ pc' = "sp_recv")
    /\ UNCHANGED <<outbox, srvVars, sentAfterError>>
    /\ UNCHANGED <<padVars, fnVars, conn, transcription, ret, raceVars>>

\* finally: await self.voice_ui.close()
Close ==
    /\ pc = "close"
    /\ pc' = "closed"
    /\ conn' = "closed"
    /\ UNCHANGED <<vadVars, variant, call_active, in_setup, netVars, srvVars, engObs>>
    /\ UNCHANGED <<ioObs, padVars, fnVars, transcription, faultSeen, ret, raceVars, interrupted>>

\* the connection breaks in mid-session
ConnDrop ==
    /\ variant \in UIVariants
    /\ pc \notin {"setup_send", "setup_recv", "close", "closed"}
    /\ conn = "open"
    /\ conn' = "broken"
    /\ UNCHANGED <<vadVars, engVars, netVars, srvVars, engObs>>
    /\ UNCHANGED <<ioObs, padVars, fnVars, transcription, faultSeen, ret, raceVars, interrupted>>

\* an event of a running response sent to a VoiceUI, or an unparseable frame
\* in its place
ServerEventUI ==
    /\ variant \in UIVariants
    /\ owed > 0
    /\ \E m \in UIEvents : ServerPut(m)
    /\ UNCHANGED <<owed, answered>>

\* the calls on a VoiceUI after initialize
UICalls ==
    \/ Listen \/ ListenWait \/ ListenSleep \/ GtCommit \/ GtCreate \/ GtRecv
    \/ Speak \/ SpCreate \/ SpEnter \/ SpRecv \/ Close

UIEngine == SetupSend \/ SetupRecv \/ UICalls

ServerUI == ServerSession \/ ServerEventUI \/ ServerDone

NextUI == audio_callback \/ UIEngine \/ ServerUI \/ ConnDrop

SpecUI == InitUI /\ [][NextUI]_vars

\* interrupt(), called from another task while speak is playing a response
Interrupt ==
    /\ pc = "sp_recv"
    /\ ~interrupted
    /\ is_speaking' = FALSE
    /\ interrupted' = TRUE
    /\ UNCHANGED <<vadFields, returned, vadObs, engVars, netVars, srvVars, engObs>>
    /\ UNCHANGED <<ioObs, padVars, fnVars, conn, transcription, faultSeen, ret, raceVars>>

NextInterrupt == NextUI \/ Interrupt

\* a VoiceUI whose owner may interrupt the playback
SpecInterrupt == InitUI /\ [][NextInterrupt]_vars

\* handle_response: ws.recv() or json.loads raises; the finally clause runs
\* and the exception leaves run
HrFault ==
    /\ variant \in Variants
    /\ pc = "hr_recv"
    /\ is_speaking' = FALSE
    /\ pc' = "closed"
    /\ in_setup' = FALSE
    /\ faultSeen' = TRUE
    /\ UNCHANGED <<vadFields, returned, vadObs, variant, call_active>>
    /\ UNCHANGED <<netVars, srvVars, engObs, ioObs>>
    /\ UNCHANGED <<padVars, fnVars, conn, transcription, ret, interrupted, raceVars>>

\* every program modelled
InitAll == Init \/ InitUI

NextAll == Next \/ UICalls \/ ServerEventUI \/ ConnDrop

SpecAll == InitAll /\ [][NextAll]_vars

NextFault == NextAll \/ HrFault

\* every program modelled, with transport faults in handle_response too
SpecFault == InitAll /\ [][NextFault]_vars

---------------------------------------------------------------------------
\* The capture thread against the event-loop thread, statement by statement.
\* The stream calls audio_callback on its own thread; reset and the writes
\* of is_speaking run on the thread of the event loop; no lock is taken.

\* process_audio: the test of the gate on is_speaking
CbGate ==
    /\ cb_pc = "idle"
    /\ \E f \in Blocks :
        /\ (AboveThreshold(f) => speech_frames + f.n <= MaxSpeech)
        /\ (~AboveThreshold(f) => silence_frames + f.n <= MaxSilence)
        /\ Len(extend(buffer, f)) <= MaxRuns
        /\ appended + f.n <= MaxAppended
        /\ IF is_speaking
           THEN UNCHANGED <<cb_pc, cb_frame>>
           ELSE /\ cb_pc' = "checked"
                /\ cb_frame' = f
    /\ UNCHANGED <<vadVars, engVars, netVars, srvVars, engObs, ioObs>>
    /\ UNCHANGED <<padVars, fnVars, uiVars, rs_pc, audio_data, appended, drained, rs_ready>>

\* process_audio: the level test and the updates of the flag and counters
CbCount ==
    /\ cb_pc = "checked"
    /\ IF AboveThreshold(cb_frame)
       THEN /\ speech_detected' = TRUE
            /\ speech_frames' = speech_frames + cb_frame.n
            /\ silence_frames' = 0
            /\ cb_pc' = "counted"
       ELSE IF speech_detected
       THEN /\ silence_frames' = silence_frames + cb_frame.n
            /\ cb_pc' = IF silence_frames + cb_frame.n < max_silence_duration
                        THEN "counted" ELSE "idle"
            /\ UNCHANGED <<speech_detected, speech_frames>>
       ELSE /\ cb_pc' = "idle"
            /\ UNCHANGED <<speech_detected, speech_frames, silence_frames>>
    /\ UNCHANGED <<buffer, is_speaking, returned, vadObs>>
    /\ UNCHANGED <<engVars, netVars, srvVars, engObs, ioObs>>
    /\ UNCHANGED <<padVars, fnVars, uiVars>>
    /\ UNCHANGED <<cb_frame, rs_pc, audio_data, appended, drained, rs_ready>>

\* process_audio: self.buffer.extend(indata.tobytes())
CbAppend ==
    /\ cb_pc = "counted"
    /\ buffer' = extend(buffer, cb_frame)
    /\ appended' = appended + cb_frame.n
    /\ cb_pc' = "idle"
    /\ UNCHANGED <<speech_frames, silence_frames, speech_detected>>
    /\ UNCHANGED <<is_speaking, returned, vadObs>>
    /\ UNCHANGED <<engVars, netVars, srvVars, engObs, ioObs>>
    /\ UNCHANGED <<padVars, fnVars, uiVars, cb_frame, rs_pc, audio_data, drained, rs_ready>>

\* reset of voice_medassist.py copies and clears the buffer first and zeroes
\* the counters last; the other files zero the counters first
buffer_first == variant = "voice_medassist"

\* reset: the counters and the flag
RsZero ==
    /\ rs_pc = IF buffer_first THEN "cleared" ELSE "idle"
    /\ speech_frames' = 0
    /\ silence_frames' = 0
    /\ speech_detected' = FALSE
    /\ rs_pc' = IF buffer_first THEN "idle" ELSE "zeroed"
    /\ returned' = IF buffer_first THEN audio_data ELSE returned
    /\ UNCHANGED <<buffer, is_speaking, vadObs>>
    /\ UNCHANGED <<engVars, netVars, srvVars, engObs, ioObs>>
    /\ rs_ready' = IF rs_pc = "idle" THEN should_process ELSE rs_ready
    /\ UNCHANGED <<padVars, fnVars, uiVars, cb_pc, cb_frame, audio_data, appended, drained>>

\* reset: audio_data = bytes(self.buffer)
RsCopy ==
    /\ rs_pc = IF buffer_first THEN "idle" ELSE "zeroed"
    /\ audio_data' = buffer
    /\ rs_pc' = "copied"
    /\ UNCHANGED <<vadVars, engVars, netVars, srvVars, engObs, ioObs>>
    /\ rs_ready' = IF rs_pc = "idle" THEN should_process ELSE rs_ready
    /\ UNCHANGED <<padVars, fnVars, uiVars, cb_pc, cb_frame, appended, drained>>

\* reset: self.buffer.clear(); return audio_data
RsClear ==
    /\ rs_pc = "copied"
    /\ buffer' = <<>>
    /\ returned' = IF buffer_first THEN returned ELSE audio_data
    /\ drained' = drained + BufSamples(audio_data)
    /\ rs_pc' = IF buffer_first THEN "cleared" ELSE "idle"
    /\ UNCHANGED <<speech_frames, silence_frames, speech_detected>>
    /\ UNCHANGED <<is_speaking, vadObs>>
    /\ UNCHANGED <<engVars, netVars, srvVars, engObs, ioObs>>
    /\ UNCHANGED <<padVars, fnVars, uiVars, cb_pc, cb_frame, audio_data, appended, rs_ready>>

\* handle_response: self.audio_processor.is_speaking = True, and False in
\* its finally clause
RsGate ==
    /\ rs_pc = "idle"
    /\ is_speaking' = ~is_speaking
    /\ UNCHANGED <<vadFields, returned, vadObs>>
    /\ UNCHANGED <<engVars, netVars, srvVars, engObs, ioObs, extVars>>

CaptureThread == CbGate \/ CbCount \/ CbAppend

LoopThread == RsZero \/ RsCopy \/ RsClear \/ RsGate

NextRace == CaptureThread \/ LoopThread

SpecRace == Init /\ [][NextRace]_vars

---------------------------------------------------------------------------
\* The routing of a user message to a specialist.  A text is the sequence
\* of its pieces: words, line breaks, and the fixed strings of the code.

\* the pieces of at most n elements of S
Texts(S, n) == UNION {[1..k -> S] : k \in 0..n}

\* "I've detected this may be a medical emergency. ..."
EmergencyOpening == "I've detected this may be a medical emergency"

\* the keys of self.specialists and of SPECIALIST_CONFIGS
Registered == {"new_symptoms", "existing_condition", "general_medical", "emergency"}

\* what the user may say, and what the classifying model may answer
UserMessages == Texts({"my knee hurts", "\n", "INTENT:", EmergencyOpening}, MaxWords)
FullResponses == Texts(Registered \cup {"unclear"}, MaxResponseWords)

\* GatekeeperAgent._classify_intent: the first label found in the answer
classify_intent(r) ==
    IF Contains(r, "emergency") THEN "emergency"
    ELSE IF Contains(r, "existing_condition") THEN "existing_condition"
    ELSE IF Contains(r, "new_symptoms") THEN "new_symptoms"
    ELSE "general_medical"

\* GatekeeperAgent.generate_reply
generate_reply(intent, message) ==
    IF intent = "emergency" THEN <<EmergencyOpening>>
    ELSE <<"INTENT:", intent, "\n">> \o message

\* gatekeeper_response.split("\n", 1)
split_once(s) ==
    LET i == CHOOSE k \in DOMAIN s :
                 s[k] = "\n" /\ \A j \in 1..(k - 1) : s[j] # "\n"
    IN  <<SubSeq(s, 1, i - 1), SubSeq(s, i + 1, Len(s))>>

NotIntentTag(t) == t # "INTENT:"

\* intent_line.replace("INTENT:", "").strip()
intent_of(intent_line) ==
    LET x == SelectSeq(intent_line, NotIntentTag)
    IN  IF Len(x) = 1 THEN x[1] ELSE ""

specialists_get_general(intent) == "general_medical"

\* self.specialists.get(intent, self.specialists["general_medical"])
specialists_get(intent) ==
    IF intent \in Registered THEN intent ELSE "general_medical"

\* the reply of a specialist
ReplyOf(sp) == <<"reply of", sp>>

\* MedicalAssistant.process_user_input
ProcessUserInput ==
    /\ variant = "medical_assistant"
    /\ LET gatekeeper_response ==
               generate_reply(classify_intent(full_response), user_message)
       IN
        /\ IF gatekeeper_response[1] = EmergencyOpening
           THEN /\ reply' = gatekeeper_response
                /\ called' = <<>>
           ELSE LET parts == split_once(gatekeeper_response)
                    specialist == specialists_get(intent_of(parts[1]))
                IN  /\ called' = <<[specialist |-> specialist, message |-> parts[2]]>>
                    /\ reply' = ReplyOf(specialist)
    /\ UNCHANGED <<vadVars, engVars, netVars, srvVars, engObs, ioObs>>
    /\ UNCHANGED <<padVars, uiVars, raceVars>>
    /\ UNCHANGED <<user_message, full_response, fmt_text, voice_text>>

\* ClassificationAndSpecialistTeam.handle_user_message
HandleUserMessage ==
    /\ variant = "med_assist"
    /\ LET classification ==
               IF Len(full_response) = 1 THEN full_response[1] ELSE ""
           config == IF classification \notin Registered
                     THEN "general_medical" ELSE classification
       IN  /\ called' = <<[specialist |-> config, message |-> user_message]>>
           /\ reply' = ReplyOf(config)
    /\ UNCHANGED <<vadVars, engVars, netVars, srvVars, engObs, ioObs>>
    /\ UNCHANGED <<padVars, uiVars, raceVars>>
    /\ UNCHANGED <<user_message, full_response, fmt_text, voice_text>>

NextRoute == ProcessUserInput \/ HandleUserMessage

\* one call: the user message and the answer of the classifying model
InitRoute ==
    /\ InitVoiceUI
    /\ user_message \in UserMessages
    /\ full_response \in FullResponses
    /\ reply = <<>>
    /\ called = <<>>
    /\ fmt_text = <<>>
    /\ voice_text = <<>>

SpecRoute == InitRoute /\ [][NextRoute]_vars

---------------------------------------------------------------------------
\* The text handed to speak() and the text sent for speech.  A text is the
\* sequence of its pieces: prose, code, the markers *, # and ```, and line
\* breaks.

\* the marker ``` of a code fence
Fence == "fence"

Pieces == {"prose", "code", "*", "#", Fence, "\n"}

SpokenTexts == Texts(Pieces, MaxPieces)

\* str.replace(marker, '')
replace(text, marker) == SelectSeq(text, LAMBDA p : p # marker)

\* str.split('\n')
RECURSIVE split(_)
split(text) ==
    IF ~Contains(text, "\n") THEN <<text>>
    ELSE LET parts == split_once(text)
         IN  <<parts[1]>> \o split(parts[2])

\* '\n'.join(filtered_lines)
RECURSIVE join(_)
join(lines) ==
    IF lines = <<>> THEN <<>>
    ELSE IF Len(lines) = 1 THEN lines[1]
    ELSE lines[1] \o <<"\n">> \o join(Tail(lines))

\* line.strip().startswith('```')
startswith_fence(line) == line # <<>> /\ line[1] = Fence

\* the loop over the lines: a fence line flips in_code_block and is skipped,
\* any other line is kept when in_code_block is false
RECURSIVE filter_lines(_, _)
filter_lines(lines, in_code_block) ==
    IF lines = <<>> THEN <<>>
    ELSE IF startswith_fence(Head(lines))
    THEN filter_lines(Tail(lines), ~in_code_block)
    ELSE (IF in_code_block THEN <<>> ELSE <<Head(lines)>>)
         \o filter_lines(Tail(lines), in_code_block)

\* VoiceUI._format_for_voice: the three replace calls, then the line loop
format_for_voice(text) ==
    LET stripped == replace(replace(replace(text, "*"), "#"), Fence)
    IN  join(filter_lines(split(stripped), FALSE))

\* speak(text) up to voice_text = self._format_for_voice(text)
FormatForVoice ==
    /\ fmt_text # <<>>
    /\ voice_text' = format_for_voice(fmt_text)
    /\ UNCHANGED <<vadVars, engVars, netVars, srvVars, engObs, ioObs>>
    /\ UNCHANGED <<padVars, uiVars, raceVars>>
    /\ UNCHANGED <<user_message, full_response, reply, called, fmt_text>>

NextFormat == FormatForVoice

\* one call of speak: the text of the reply
InitFormat ==
    /\ InitVoiceUI
    /\ fmt_text \in SpokenTexts
    /\ voice_text = <<>>
    /\ user_message = <<>>
    /\ full_response = <<>>
    /\ reply = <<>>
    /\ called = <<>>

SpecFormat == InitFormat /\ [][NextFormat]_vars

---------------------------------------------------------------------------
\* Claims about the endpointer (checked under SpecVAD)

Resets == {"reset", "reset_again"}

\* C1: process_audio called while is_speaking is true leaves speech_frames,
\* silence_frames, speech_detected and the buffer unchanged, whatever the
\* amplitude of the frame.
C1_GatedFrameDropped ==
    [][(lastOp' = "process_audio" /\ is_speaking) => UNCHANGED vadFields]_vars

\* a loud frame was dropped by a closed gate while an utterance was buffered
C1_Witness ==
    /\ lastOp = "process_audio"
    /\ is_speaking
    /\ AboveThreshold(indata)
    /\ speech_detected
    /\ buffer # <<>>

\* 0.35 s and 0.9 s of samples, 0.1 s of samples
Speech035 == (35 * sample_rate) \div 100
Silence09 == (9 * sample_rate) \div 10
Speech01 == sample_rate \div 10

\* C2: with the gate open, 0.35 s of above-threshold frames followed by
\* 0.9 s of below-threshold frames make should_process() go from false to
\* true exactly once, never back to false before the drain, and it is false
\* right after reset().
C2_ReadyExactlyOnce ==
    /\ (clean /\ fedLoud = Speech035 /\ fedQuiet = Silence09)
          => (should_process /\ rises = 1 /\ falls = 0)
    /\ (clean /\ fedLoud <= Speech035 /\ fedQuiet <= Silence09)
          => (rises <= 1 /\ falls = 0 /\ (should_process <=> rises = 1))
    /\ (lastOp \in Resets) => ~should_process

\* the whole scenario has been fed
C2_Witness ==
    /\ clean
    /\ fedLoud = Speech035
    /\ fedQuiet = Silence09
    /\ should_process

\* C3: after a construction or a drain, 0.1 s of above-threshold frames
\* followed by any amount of below-threshold frames never makes
\* should_process() true.
C3_FloorNotMet ==
    (clean /\ fedLoud = Speech01) => ~should_process

\* the short burst was followed by silence past the silence threshold
C3_Witness ==
    /\ clean
    /\ fedLoud = Speech01
    /\ silence_frames > max_silence_duration

\* C4: reset() returns the accumulated bytes, zeroes the counters, clears
\* speech_detected and the buffer and leaves is_speaking alone; a second
\* reset() right after it returns empty bytes and should_process() stays
\* false.
C4_ResetDrains ==
    [][(lastOp' \in Resets) =>
          /\ returned' = buffer
          /\ speech_frames' = 0
          /\ silence_frames' = 0
          /\ speech_detected' = FALSE
          /\ buffer' = <<>>
          /\ is_speaking' = is_speaking
          /\ ~should_process'
          /\ (lastOp' = "reset_again" => returned' = <<>>)]_vars

\* a second reset directly after a reset, with the gate raised
C4_Witness ==
    /\ lastOp = "reset_again"
    /\ returned = <<>>
    /\ is_speaking

\* C5 as claimed: once silence_frames has reached max_silence_duration no
\* later frame of any amplitude is appended until reset() drains the buffer.
C5_ClosedToAnyFrame ==
    [][(silence_frames >= max_silence_duration /\ lastOp' = "process_audio")
          => buffer' = buffer]_vars

\* C5 amended: once silence_frames has reached max_silence_duration no later
\* below-threshold frame is appended until reset(); an above-threshold frame
\* fed with the gate open is still appended and sets silence_frames to 0.
C5_ClosedToSilence ==
    [][(silence_frames >= max_silence_duration /\ lastOp' = "process_audio") =>
          /\ ~AboveThreshold(indata') => buffer' = buffer
          /\ (AboveThreshold(indata') /\ ~is_speaking) =>
                (buffer' = extend(buffer, indata') /\ silence_frames' = 0)]_vars

\* a below-threshold frame arrived with the gate open after the threshold
\* had been reached
C5_Witness ==
    /\ lastOp = "process_audio"
    /\ ~is_speaking
    /\ speech_detected
    /\ ~AboveThreshold(indata)
    /\ silence_frames - indata.n >= max_silence_duration

---------------------------------------------------------------------------
\* Claims about the engine (checked under Spec and FairSpec)

\* C6: in a cycle answered by audio deltas followed by response.done,
\* is_speaking is true at the moment each delta is written to the output
\* stream, and it is false once response.done has been processed and the
\* engine is back in its polling loop.
C6_GateDuringPlayback ==
    /\ \A i \in DOMAIN played : played[i]
    /\ pc \in {"loop", "sleep"} => ~is_speaking

\* an utterance was sent, two deltas were played and response.done was
\* processed
C6_Witness ==
    /\ pc = "sleep"
    /\ outbox # <<>>
    /\ outbox[1].type = "input_audio_buffer.append"
    /\ lastRecv = "response.done"
    /\ Len(played) >= 2
    /\ ~is_speaking

\* C7 as claimed: the gate is raised by the first audio delta only, so it
\* is still false while the engine waits for the first delta, and it is
\* never raised in a response without audio delta.
C7_GateRaisedByFirstDelta ==
    (pc = "hr_recv" /\ audioDeltas = 0) => ~is_speaking

\* C7 amended: the gate is raised on entry to handle_response, before the
\* first inbound event is read: it is false while the request is being sent
\* and true during the whole wait for the response and the playback, also
\* in a response that carries no audio delta.
C7_GateRaisedOnEntry ==
    /\ pc \in {"msg_create", "audio_commit", "audio_create", "hr_enter"} => ~is_speaking
    /\ pc = "hr_recv" => is_speaking

\* an utterance was sent and the response has so far carried text only
C7_Witness ==
    /\ pc = "hr_recv"
    /\ outbox # <<>>
    /\ outbox[1].type = "input_audio_buffer.append"
    /\ lastRecv = "response.text.done"
    /\ audioDeltas = 0
    /\ is_speaking

\* C8: an inbound error message received in any engine state moves the
\* engine to Closed, and no outbound message is sent after it.
C8_ErrorCloses ==
    errorSeen => (pc = "closed" /\ ~sentAfterError)

\* C9 as claimed: when received text ends the call, the engine keeps
\* consuming the events of the current response until response.done and
\* only then leaves; the response loop never stops mid-stream.
C9_ConsumesUntilDone ==
    (~call_active /\ pc # "hr_recv") => lastRecv = "response.done"

\* C9 amended: when received text ends the call, the response loop breaks
\* at the top of its next iteration without reading another message (events
\* of that response may stay unread), is_speaking is reset to false and the
\* run loop then exits.
C9_StopsAtOnce ==
    ~call_active => (pc \in {"sleep", "loop", "ended"} /\ ~is_speaking)

\* the call ended on a user goodbye with an audio delta of the response
\* still unread
C9_Witness ==
    /\ ~call_active
    /\ pc = "ended"
    /\ lastRecv = "conversation.item.created"
    /\ inbox # <<>>
    /\ Head(inbox).type = "response.audio.delta"

\* C10: after an utterance has been sent the wait for response.done is
\* bounded: the engine eventually leaves the waiting state even if the
\* service never sends response.done.
C10_WaitBounded ==
    (pc = "hr_recv" /\ ~in_setup) ~> (pc # "hr_recv")

---------------------------------------------------------------------------
\* Claims about the playback of audio deltas

\* the step of handle_response that receives the head of the inbox
HrStep == pc = "hr_recv" /\ inbox # <<>> /\ inbox' = Tail(inbox)

\* C12: a delta that fails to decode is skipped alone: nothing is written
\* for it and the loop goes on with the gate unchanged; a later delta of the
\* same response that decodes is still written (unless the device raises),
\* and response.done still ends the loop with is_speaking false.
C12_DecodeErrorSkipsOneDelta ==
    [][HrStep =>
        LET m == Head(inbox)
            audio == m.type = "response.audio.delta"
        IN  /\ (audio /\ m.delta = "p") =>
                  /\ played' = played
                  /\ decodeErrors' = decodeErrors + 1
                  /\ pc' = "hr_recv"
                  /\ is_speaking' = is_speaking
            /\ (audio /\ m.delta = "pcm" /\ decodeErrors > 0 /\ ~deviceFailed') =>
                  /\ played' = Append(played, is_speaking)
                  /\ pc' = "hr_recv"
            /\ (m.type = "response.done" /\ decodeErrors > 0) =>
                  /\ pc' # "hr_recv"
                  /\ ~is_speaking']_vars

\* a delta written after another delta of the same response failed to decode
C12_Witness ==
    /\ pc = "hr_recv"
    /\ decodeErrors > 0
    /\ wrote
    /\ played # <<>>

\* C13: a write to the output stream that raises ends the conversation: the
\* engine is closed once the device has failed.
C13_DeviceFailureCloses == deviceFailed => pc = "closed"

\* C14: for a non-empty delta of length L the padding appended is 3, 2, 1
\* or 0 characters "=" for L mod 4 = 1, 2, 3, 0; the padded length is a
\* multiple of 4 and a delta whose length is a multiple of 4 is unchanged.
C14_PaddingTable ==
    padded # "" =>
        LET L == Len(audio_b64)
            k == Len(padded) - L
            Eqs == <<"", "=", "==", "===">>
        IN  /\ k = (CASE L % 4 = 1 -> 3 [] L % 4 = 2 -> 2
                       [] L % 4 = 3 -> 1 [] OTHER -> 0)
            /\ padded = audio_b64 \o Eqs[k + 1]
            /\ Len(padded) % 4 = 0
            /\ (L % 4 = 0 => padded = audio_b64)

\* a delta of five characters padded with three
C14_Witness ==
    /\ Len(audio_b64) = 5
    /\ Len(padded) = 8

TextEvents ==
    {"response.text.delta", "response.text.done", "conversation.item.created"}

\* C20 as stated: a text delta, a final text or a conversation item leaves
\* is_speaking as it was, writes nothing and leaves the loop running.
C20_TextKeepsLoop ==
    [][(HrStep /\ Head(inbox).type \in TextEvents) =>
          /\ is_speaking' = is_speaking
          /\ played' = played
          /\ pc' = "hr_recv"]_vars

\* C20 amended: the same, except that in voice_medassist.py the final text
\* with the all-questions-answered sentence and the user item with a
\* goodbye clear call_active, leave the loop at once and lower the gate.
C20_TextKeepsLoopUnlessCallEnds ==
    [][(HrStep /\ Head(inbox).type \in TextEvents) =>
        LET m == Head(inbox)
            ending ==
                /\ variant = "voice_medassist"
                /\ \/ m.type = "response.text.done" /\ m.text = Answered
                   \/ /\ m.type = "conversation.item.created"
                      /\ m.role = "user"
                      /\ m.text = Goodbye
        IN  /\ played' = played
            /\ ~wrote'
            /\ IF ending
               THEN /\ ~call_active'
                    /\ pc' # "hr_recv"
                    /\ ~is_speaking'
               ELSE /\ is_speaking' = is_speaking
                    /\ call_active' = call_active
                    /\ pc' = "hr_recv"]_vars

\* a text event received after an audio delta, the loop still running
C20_Witness ==
    /\ pc = "hr_recv"
    /\ lastRecv \in TextEvents
    /\ is_speaking
    /\ played # <<>>

---------------------------------------------------------------------------
\* Claims about the session and the requests (checked for every program)

\* C11: a send or recv that raises, or a frame that cannot be parsed, is
\* fatal: once it has happened the caller is closing or closed, it does not
\* listen, send or speak again.
C11_FaultCloses == faultSeen => pc \in {"close", "closed"}

SessionUpdate == <<Out("session.update", NoAudio)>>

Greeting == <<Out("conversation.item.create", NoAudio)>>

\* the first message of a request that carries the utterance just drained
UtteranceStart(box) ==
    /\ Len(box) = 1
    /\ box[1].type = "input_audio_buffer.append"
    /\ should_process
    /\ box[1].audio.pcm = buffer

\* C15 as stated: session.created brings the engine to Ready without a
\* further outbound message, and the message that follows session.update is
\* the first message of a completed utterance.
C15_SilentUntilUtterance ==
    [][/\ (pc = "setup_recv" /\ pc' # "setup_recv") => outbox' = outbox
       /\ (outbox = SessionUpdate /\ outbox' # outbox) => UtteranceStart(outbox')]_vars

\* C15 amended: so it is in voice_medassist.py and med_assist.py; in
\* voice_ui_0n.py the greeting item is sent in the step that receives
\* session.created, in MedicalAssistant.start_conversation by the speak call
\* that follows initialize; the request that follows a greeting or a spoken
\* reply is the first message of a completed utterance.
C15_GreetingThenUtterances ==
    [][/\ (pc = "setup_recv" /\ pc' # "setup_recv" /\ variant # "voice_ui_0n")
             => outbox' = outbox
       /\ (outbox = SessionUpdate /\ outbox' # outbox) =>
             CASE variant = "voice_ui_0n" ->
                    /\ outbox' = Greeting
                    /\ pc = "setup_recv"
                    /\ lastRecv' = "session.created"
               [] variant = "medical_assistant" ->
                    /\ outbox' = Greeting
                    /\ pc = "speak"
               [] OTHER -> UtteranceStart(outbox')
       /\ (/\ outbox # <<>>
           /\ outbox[1].type = "conversation.item.create"
           /\ outbox' # outbox
           /\ Len(outbox') = 1) => UtteranceStart(outbox')]_vars

\* the greeting of voice_ui_0n.py being answered before the run loop starts
C15_Witness ==
    /\ variant = "voice_ui_0n"
    /\ in_setup
    /\ pc = "hr_recv"
    /\ Len(outbox) = 2
    /\ outbox[1].type = "conversation.item.create"
    /\ outbox[2].type = "response.create"

\* C16: session.update is the first message sent and the only one while the
\* setup waits; the wait ends only on session.created (success) or on error
\* (failure, the program is closed); any other message is dropped and the
\* wait goes on; no utterance is sent before the setup has returned.
C16_SetupOrder ==
    [][/\ (pc' = "setup_recv") => outbox' = SessionUpdate
       /\ (pc = "setup_recv" /\ pc' # "setup_recv") =>
             /\ inbox # <<>>
             /\ inbox' = Tail(inbox)
             /\ IF Head(inbox).type = "session.created"
                THEN pc' \in {"msg_create", "loop", "speak", "listen"}
                ELSE Head(inbox).type = "error" /\ pc' = "closed"
       /\ (pc = "setup_recv" /\ inbox # <<>> /\ inbox' = Tail(inbox)) =>
             /\ Head(inbox).type = "error" => pc' = "closed"
             /\ Head(inbox).type = "session.created" => pc' # "setup_recv"
             /\ Head(inbox).type \notin {"session.created", "error"} =>
                   (pc' = "setup_recv" /\ outbox' = outbox)
       /\ (pc' \in {"setup_send", "setup_recv", "msg_create"} \/ in_setup') =>
             \A i \in DOMAIN outbox' :
                 outbox'[i].type # "input_audio_buffer.append"]_vars

\* the setup still waiting after a message that is neither session.created
\* nor error
C16_Witness ==
    /\ pc = "setup_recv"
    /\ lastRecv = "rate_limits.updated"
    /\ outbox = SessionUpdate

\* the base64 text of n bytes: four characters for each started group of
\* three bytes
IsBase64Length(len, nbytes) ==
    /\ len % 4 = 0
    /\ 3 * len >= 4 * nbytes
    /\ 3 * (len - 4) < 4 * nbytes

\* the requests of an utterance, with the modalities mods(variant) asked for
UtteranceRequest(mods) ==
    /\ (outbox' # outbox /\ outbox' # <<>>
           /\ outbox'[1].type = "input_audio_buffer.append") =>
          CASE Len(outbox') = 1 ->
                 /\ UtteranceStart(outbox')
                 /\ IsBase64Length(outbox'[1].audio.b64len, 2 * BufSamples(buffer))
            [] Len(outbox') = 2 ->
                 /\ outbox' = Append(outbox, Out("input_audio_buffer.commit", NoAudio))
            [] Len(outbox') = 3 ->
                 /\ outbox' = Append(outbox, outbox'[3])
                 /\ outbox'[3].type = "response.create"
                 /\ outbox'[3].modalities = mods
            [] OTHER -> FALSE
    /\ (pc' = "gt_recv" \/ (pc' \in {"hr_enter", "hr_recv"} /\ ~in_setup')) =>
          /\ Len(outbox') = 3
          /\ outbox'[1].type = "input_audio_buffer.append"

---------------------------------------------------------------------------
\* Claims about the two threads (checked under SpecRace)

\* C18: the handoff is atomic: when no reset is in progress, the samples of
\* the frames process_audio has appended are those of the utterances
\* drained so far and of the buffer; no frame is lost or drained twice.
C18_HandoffAtomic ==
    rs_pc = "idle" => appended = drained + BufSamples(buffer)

\* C19: no step of process_audio appends a frame or changes a counter
\* while is_speaking is true.
C19_NoCaptureWhileSpeaking ==
    [][(/\ cb_pc' # cb_pc
        /\ \/ buffer' # buffer
           \/ speech_frames' # speech_frames
           \/ silence_frames' # silence_frames) => ~is_speaking]_vars

---------------------------------------------------------------------------
\* Claims about the order of playback and of the cycles

\* the step of speak that receives the head of the inbox
SpStep == pc = "sp_recv" /\ inbox # <<>> /\ inbox' = Tail(inbox)

\* a step of a playback loop (handle_response or speak)
PlayStep == HrStep \/ SpStep

\* the response.done of the response a message read now belongs to has not
\* been read: it is still to be emitted or it is still in flight
DoneAhead ==
    owed > 0 \/ \E i \in DOMAIN inbox' : inbox'[i].type = "response.done"

\* C21 as claimed: each non-empty audio delta is written to the output
\* stream before the next inbound message is read, the blocks are written
\* in the order of arrival, and no block of a response is written after the
\* response.done of that response has been processed.
C21_EveryDeltaWritten ==
    [][/\ PlayStep =>
            LET m == Head(inbox) IN
            /\ (m.type = "response.audio.delta" /\ m.delta # "") =>
                   (wrote' /\ played' = Append(played, is_speaking))
            /\ wrote' => DoneAhead
       /\ (~PlayStep /\ played' # played) => played' = <<>>]_vars

\* C21 amended: each non-empty audio delta is handled before the next
\* inbound message is read: when it decodes and the write does not raise it
\* is written at once, otherwise it is dropped; nothing else is written, so
\* the blocks are written in the order of arrival, and no block of a
\* response is written after the response.done of that response has been
\* processed.
C21_PlayedOnArrival ==
    [][/\ PlayStep =>
            LET m == Head(inbox)
                audio == m.type = "response.audio.delta" /\ m.delta # ""
            IN  /\ (audio /\ decodes(m.delta)) => (wrote' \/ deviceFailed')
                /\ wrote' => (audio /\ decodes(m.delta) /\ DoneAhead)
                /\ played' = IF wrote' THEN Append(played, is_speaking)
                             ELSE played
       /\ (~PlayStep /\ played' # played) => played' = <<>>
       /\ ~PlayStep => (wrote' => wrote)]_vars

\* speak has written two blocks of a response that is still running
C21_Witness ==
    /\ variant \in UIVariants
    /\ pc = "sp_recv"
    /\ Len(played) >= 2
    /\ wrote
    /\ owed > 0

\* a step in which the engine calls reset() on the endpointer: the drain of
\* run, the reset on entry to listen, the drain of listen
DrainStep ==
    \/ pc = "loop" /\ pc' = "audio_commit"
    \/ pc = "listen" /\ pc' = "listen_wait"
    \/ pc = "listen_wait" /\ pc' # "listen_wait" /\ pc' # "listen_sleep"

\* C22: the engine calls reset() on an endpointer that holds audio only
\* when should_process() is true, and what the endpointer had accepted is
\* sent: the drained bytes are the audio of the input_audio_buffer.append
\* that starts the request.
C22_DrainOnlyWhenReady ==
    [][(DrainStep /\ buffer # <<>>) =>
          /\ should_process
          /\ returned' = buffer
          /\ outbox' = <<Out("input_audio_buffer.append", b64encode(buffer))>>]_vars

\* C23: once interrupt() has been called during a playback, speak writes
\* no further audio delta of that playback to the output stream.
C23_InterruptStopsPlayback ==
    [][(SpStep /\ interrupted) => (played' = played /\ ~wrote')]_vars

---------------------------------------------------------------------------
\* Claims about the effect of one frame (checked under SpecVAD)

\* the samples of below-threshold audio at the end of the buffer
TrailingSilence(buf) ==
    IF buf # <<>> /\ ~AboveThreshold(buf[Len(buf)]) THEN buf[Len(buf)].n ELSE 0

\* C24: with the gate open and speech detected, a below-threshold frame of
\* n samples adds n to silence_frames and is appended exactly when the new
\* silence_frames is below max_silence_duration; the frame that makes
\* silence_frames equal to max_silence_duration is not appended,
\* speech_frames is unchanged, and the silence kept at the end of the buffer
\* is always shorter than max_silence_duration.
C24_SilenceFrame ==
    /\ [](TrailingSilence(buffer) < max_silence_duration)
    /\ [][(lastOp' = "process_audio" /\ ~is_speaking /\ speech_detected
             /\ ~AboveThreshold(indata')) =>
            /\ silence_frames' = silence_frames + indata'.n
            /\ buffer' = IF silence_frames' < max_silence_duration
                         THEN extend(buffer, indata') ELSE buffer
            /\ (silence_frames' = max_silence_duration => buffer' = buffer)
            /\ speech_frames' = speech_frames
            /\ speech_detected']_vars

\* the frame that made silence_frames equal to max_silence_duration was
\* left out of the buffer
C24_Witness ==
    /\ lastOp = "process_audio"
    /\ ~is_speaking
    /\ speech_detected
    /\ ~AboveThreshold(indata)
    /\ silence_frames = max_silence_duration
    /\ TrailingSilence(buffer) = max_silence_duration - indata.n

\* C25: with the gate open, an above-threshold frame of n samples sets
\* speech_detected, adds n to speech_frames, appends its samples to the
\* buffer and sets silence_frames to 0, whether it arrives before any
\* speech, during speech or during trailing silence.
C25_SpeechFrame ==
    [][(lastOp' = "process_audio" /\ ~is_speaking /\ AboveThreshold(indata')) =>
          /\ speech_detected'
          /\ speech_frames' = speech_frames + indata'.n
          /\ buffer' = extend(buffer, indata')
          /\ BufSamples(buffer') = BufSamples(buffer) + indata'.n
          /\ silence_frames' = 0]_vars

\* an above-threshold frame arrived during trailing silence: the buffer
\* holds speech, then silence, then the frame
C25_Witness ==
    /\ lastOp = "process_audio"
    /\ ~is_speaking
    /\ AboveThreshold(indata)
    /\ silence_frames = 0
    /\ Len(buffer) >= 3
    /\ ~AboveThreshold(buffer[Len(buffer) - 1])
    /\ buffer[Len(buffer)].n = indata.n

\* C26: while no speech has been detected since construction or the last
\* drain, a below-threshold frame is discarded: the buffer, speech_frames,
\* silence_frames and speech_detected are unchanged.
C26_IdleSilenceDiscarded ==
    [][(lastOp' = "process_audio" /\ ~speech_detected /\ ~AboveThreshold(indata'))
          => UNCHANGED vadFields]_vars

\* a below-threshold frame was fed to the idle endpointer with the gate open
C26_Witness ==
    /\ lastOp = "process_audio"
    /\ ~is_speaking
    /\ indata.n > 0
    /\ ~AboveThreshold(indata)
    /\ ~speech_detected
    /\ buffer = <<>>
    /\ silence_frames = 0

---------------------------------------------------------------------------
\* Claims about the cycles and the exits of the playback loops

\* notices of the service that belong to no response
Notices == {"session.created", "error", "rate_limits.updated"}

\* C27: when the engine sends a response.create, every earlier response is
\* finished and every message of it has been read, so that the
\* response.done of an earlier response cannot end the new cycle.
C27_CyclesNeverOverlap ==
    [][owed' = owed + 1 =>
          /\ owed = 0
          /\ \A i \in DOMAIN inbox : inbox[i].type \in Notices]_vars

\* C28: handle_response and speak leave is_speaking false on every exit
\* path (response.done, early exit of the loop, an exception of recv, of the
\* parser or of a send), so the gate is closed only inside their receive
\* loops and never while the engine polls or listens.
C28_GateLoweredOnExit ==
    /\ [](pc \notin {"hr_recv", "sp_recv"} => ~is_speaking)
    /\ [][(pc \in {"hr_recv", "sp_recv"} /\ pc' # pc) => ~is_speaking']_vars

\* speak has played a block, then left through its exception handler on a
\* frame that could not be parsed, and the caller goes on
C28_Witness ==
    /\ faultSeen
    /\ lastRecv = "garbage"
    /\ played # <<>>
    /\ pc \in {"listen", "close"}
    /\ ~is_speaking

---------------------------------------------------------------------------
\* Claims about readiness and the fields of the endpointer

\* C29 as claimed: once should_process() is true it stays true for every
\* further frame, whatever its amplitude, until reset() is called.
C29_ReadinessStable ==
    [][(should_process /\ lastOp' = "process_audio") => should_process']_vars

\* C29 amended: once should_process() is true it stays true for every
\* further below-threshold frame, for every frame fed while is_speaking is
\* true and through gate changes, until reset() makes it false; an
\* above-threshold frame fed with the gate open sets silence_frames to 0
\* and makes it false again.
C29_ReadinessStableInSilence ==
    [][should_process =>
          IF lastOp' \in Resets THEN ~should_process'
          ELSE should_process' <=>
                  ~(lastOp' = "process_audio" /\ ~is_speaking
                      /\ AboveThreshold(indata'))]_vars

\* the endpointer was ready, a further below-threshold frame was fed with
\* the gate open and it is still ready
C29_Witness ==
    /\ lastOp = "process_audio"
    /\ ~is_speaking
    /\ ~AboveThreshold(indata)
    /\ should_process
    /\ silence_frames - indata.n >= max_silence_duration

\* C30: in every state reached by whole calls of process_audio and reset
\* and by gate changes: without speech_detected the buffer is empty and both
\* counters are 0; with speech_detected speech_frames is positive; and
\* silence_frames is positive only with speech_detected.
C30_FieldInvariant ==
    /\ ~speech_detected =>
          (buffer = <<>> /\ speech_frames = 0 /\ silence_frames = 0)
    /\ speech_detected => speech_frames > 0
    /\ silence_frames > 0 => speech_detected

\* the gate was changed on an endpointer holding speech and trailing silence
C30_Witness ==
    /\ lastOp = "gate"
    /\ is_speaking
    /\ speech_detected
    /\ silence_frames > 0
    /\ buffer # <<>>

\* buf is an initial part of the sample string of buf2
IsPrefix(buf, buf2) ==
    \/ buf = <<>>
    \/ /\ Len(buf) <= Len(buf2)
       /\ \A i \in 1..(Len(buf) - 1) : buf2[i] = buf[i]
       /\ buf2[Len(buf)].level = buf[Len(buf)].level
       /\ buf2[Len(buf)].n >= buf[Len(buf)].n
       /\ (Len(buf2) > Len(buf) => buf2[Len(buf)].n = buf[Len(buf)].n)

\* C31: between two drains speech_frames never decreases, the buffer never
\* shrinks and speech_detected is never cleared, whatever the length of the
\* silence; an above-threshold frame that follows a silence longer than
\* max_silence_duration still adds to speech_frames; only reset() returns
\* the endpointer to its idle state.
C31_AccumulatesUntilDrain ==
    [][/\ lastOp' \notin Resets =>
            /\ speech_frames' >= speech_frames
            /\ IsPrefix(buffer, buffer')
            /\ BufSamples(buffer') >= BufSamples(buffer)
            /\ (speech_detected => speech_detected')
       /\ (lastOp' = "process_audio" /\ ~is_speaking /\ AboveThreshold(indata')
             /\ silence_frames > max_silence_duration) =>
            speech_frames' = speech_frames + indata'.n
       /\ (speech_detected /\ ~speech_detected') => lastOp' \in Resets]_vars

\* a burst below the floor was followed by a silence longer than
\* max_silence_duration, and the endpointer still holds it
C31_Witness ==
    /\ lastOp = "process_audio"
    /\ ~is_speaking
    /\ speech_detected
    /\ speech_frames > 0
    /\ speech_frames < min_speech_duration
    /\ silence_frames > max_silence_duration
    /\ BufSamples(buffer) > speech_frames

---------------------------------------------------------------------------
\* Claims about the capture thread and the utterances sent

\* the samples of above-threshold audio in the buffer
RECURSIVE LoudSamples(_)
LoudSamples(buf) ==
    IF buf = <<>> THEN 0
    ELSE (IF AboveThreshold(buf[1]) THEN buf[1].n ELSE 0) + LoudSamples(Tail(buf))

\* C32: once reset() has returned and no callback is in progress, the
\* buffer holds the frames counted in speech_frames and the silence
\* accepted since the drain, and it is empty when speech_detected is false,
\* whatever the interleaving of the callbacks with the statements of reset
\* and in both statement orders of reset.
C32_ConsistentAfterReset ==
    (rs_pc = "idle" /\ cb_pc = "idle") =>
        /\ LoudSamples(buffer) = speech_frames
        /\ TrailingSilence(buffer) <= silence_frames
        /\ (~speech_detected => buffer = <<>>)

\* C33: an utterance drained by a reset() that was called with
\* should_process() true is not empty and holds at least
\* min_speech_duration samples of above-threshold audio, under every
\* interleaving with the capture callback.
C33_UtteranceAboveFloor ==
    (rs_ready /\ rs_pc \in {"copied", "cleared"}) =>
        /\ audio_data # <<>>
        /\ LoudSamples(audio_data) >= min_speech_duration

---------------------------------------------------------------------------
\* Claims about the programs that drive a VoiceUI

\* C34: whenever MedicalAssistant.start_conversation has ended, by the
\* goodbye exit, by an exception in the loop or by an exception during
\* initialize after the streams were started, close() has been called: the
\* websocket is closed.
C34_ClosedOnEveryExit ==
    (variant = "medical_assistant" /\ pc = "closed") => conn = "closed"

\* C35: process_user_input returns one reply for every user message: the
\* fixed emergency message, with no specialist called, when the gatekeeper
\* classifies the message as an emergency; otherwise the reply of exactly
\* one specialist, the one registered for the classified intent, which gets
\* the user message; a label without registered specialist falls back to
\* the general_medical specialist.
C35_OneReplyOneSpecialist ==
    reply # <<>> =>
        LET emergency == Contains(full_response, "emergency")
            intent ==
                IF Contains(full_response, "existing_condition")
                THEN "existing_condition"
                ELSE IF Contains(full_response, "new_symptoms")
                THEN "new_symptoms" ELSE "general_medical"
            label == IF Len(full_response) = 1 THEN full_response[1] ELSE ""
            config == IF label \in Registered THEN label ELSE "general_medical"
            one(sp) == /\ called = <<[specialist |-> sp, message |-> user_message]>>
                       /\ reply = <<"reply of", sp>>
        IN  IF variant = "medical_assistant"
            THEN IF emergency
                 THEN reply = <<EmergencyOpening>> /\ called = <<>>
                 ELSE one(intent)
            ELSE one(config)

\* a message of several lines that quotes the emergency sentence was
\* classified as existing_condition and routed to that specialist
C35_Witness ==
    /\ variant = "medical_assistant"
    /\ Len(user_message) = 3
    /\ user_message[1] = EmergencyOpening
    /\ user_message[2] = "\n"
    /\ called # <<>>
    /\ called[1].specialist = "existing_condition"

\* C36: _format_for_voice removes code blocks: a piece of the text that
\* stands only on fence lines (lines starting with ```) or on lines between
\* an opening fence and its closing fence does not appear in the text sent
\* for speech, and neither does the fence marker.
C36_CodeBlocksRemoved ==
    LET outside == join(filter_lines(split(fmt_text), FALSE))
    IN  \A i \in DOMAIN voice_text :
            /\ voice_text[i] # Fence
            /\ voice_text[i] # "\n" => Contains(outside, voice_text[i])

====
